---- MODULE Spec2Model ----
(***************************************************************************)
(* retryable-promise-ts: one retry() call (src/src/utils/rateLimiter.ts    *)
(* lines 90-203), the delay step runDelayWithOverride                      *)
(* (src/unnamed/part_005 lines 95-141), the token-bucket RateLimiter       *)
(* (src/src/utils/rateLimiter.ts lines 5-62), mergeAbortSignals and        *)
(* extractRetryAfterMs.  A second specification, LimiterSpec, runs one    *)
(* RateLimiter under several concurrent callers of acquire().              *)
(*                                                                         *)
(* Time is the millisecond clock Date.now().  The engine runs its          *)
(* synchronous blocks without the clock moving; the clock moves only while *)
(* the call is suspended on a timer or on caller code (the operation, a    *)
(* predicate, delayFn, a hook).  Timers fire exactly at their deadline.    *)
(* The caller supplies onRetry and onGiveUp; either may throw.             *)
(***************************************************************************)
EXTENDS Integers, Sequences, FiniteSets, TLC

\* ------------------------------------------------------------------ bounds
MaxRetries == 2
MaxTime == 2
MaxCallers == 2
MaxCalls == 4
MaxLimTime == 6
MaxSignals == 3

\* ------------------------------------------------------ program constants
DefaultRetryAfterMs == 1000
TooManyRequests == 429
ServiceUnavailable == 503

\* "undefined" for an optional number, NaN for a non-finite hook result
Undef == 0 - 1
NaN == 0 - 999

\* ------------------------------------------------------------ input sets
BudgetChoices == {Undef, 0, 2}
TimeoutChoices == {Undef, 2}
TokensPerInterval == {1}
IntervalChoices == {2}
JitterModes == {"none", "full", "equal"}
OverrideChoices == {NaN, 0 - 1, 1, 2}
\* shapes of the value an invocation rejects with: an Error, a primitive (a
\* thrown string), an Error carrying retryAfterMs, an Error carrying status 429
ErrShapes ==
  { [isError |-> TRUE,  retryAfterMs |-> Undef, status |-> Undef],
    [isError |-> FALSE, retryAfterMs |-> Undef, status |-> Undef],
    [isError |-> TRUE,  retryAfterMs |-> 2,     status |-> Undef],
    [isError |-> TRUE,  retryAfterMs |-> Undef, status |-> TooManyRequests] }

Max(a, b) == IF a >= b THEN a ELSE b
Min(a, b) == IF a <= b THEN a ELSE b

\* ---------------------------------------------------------------- values
NoVal ==
  [kind |-> "none", inv |-> 0, name |-> "", message |-> "",
   isError |-> FALSE, retryAfterMs |-> Undef, status |-> Undef]
Result(i) == [NoVal EXCEPT !.kind = "result", !.inv = i]
OpError(i, shape) ==
  [kind |-> "error", inv |-> i, name |-> "Error", message |-> "fail",
   isError |-> shape.isError, retryAfterMs |-> shape.retryAfterMs,
   status |-> shape.status]
EngineError(nm, msg) ==
  [kind |-> "error", inv |-> 0, name |-> nm, message |-> msg,
   isError |-> TRUE, retryAfterMs |-> Undef, status |-> Undef]
BudgetError == EngineError("RetryMaxElapsedTimeExceeded", "Retry maxElapsedTime exceeded")
AbortError == EngineError("Error", "Operation aborted")
ConfigError == EngineError("Error", "AbortSignal.timeout not supported")
CallbackError == EngineError("Error", "thrown by onRetry")

\* ------------------------------------------------------------- options
\* users of one RateLimiter besides the retry() call, and one of them before it
\* has called acquire()
Callers == 1..MaxCallers
IdleCaller == [st |-> "idle", wake |-> 0]
\* what the latest acquire() call found: how long the limiter had been unused, the
\* tokens before and after its first refill, and, if it had to wait, baseDelay and
\* the timer duration
NoCall ==
  [idleFor |-> 0, before |-> 0, avail |-> 0, waited |-> FALSE, base |-> 0, delay |-> 0,
   by |-> 0]

\* no limiter, a limiter built from options.rateLimit, or a provided (shared) one
Limiters ==
  { [kind |-> "none", tokensPerInterval |-> 1, interval |-> 1, jitterMode |-> "none"] }
  \cup { l \in [kind : {"rateLimit", "rateLimiter"}, tokensPerInterval : TokensPerInterval,
                 interval : IntervalChoices, jitterMode : JitterModes] :
           l.kind = "rateLimiter" => l.jitterMode = "none" }

Configs ==
  { c \in [retries : 0..MaxRetries,
           maxElapsedTime : BudgetChoices,
           timeout : TimeoutChoices,
           timeoutSupported : BOOLEAN,
           hasSignal : BOOLEAN,
           hasDelayFn : BOOLEAN,
           hasOverride : BOOLEAN,
           hasRetryIf : BOOLEAN,
           hasRetryOnResult : BOOLEAN,
           limiter : Limiters] :
      /\ c.timeout = Undef => c.timeoutSupported
      \* delayFn, retryIf and retryOnResult are all supplied or all omitted: a
      \* supplied hook that returns at once / always retries / never retries
      \* behaves as an omitted one
      /\ c.hasRetryIf = c.hasDelayFn
      /\ c.hasRetryOnResult = c.hasDelayFn }

VARIABLES
  cfg,              \* the options of this call
  now,              \* Date.now()
  startTime,
  pc,
  attempts,
  invocations,      \* how many times fn was called
  cur,              \* result / err of the current iteration
  path,             \* which branch called runDelayWithOverride
  failErr,          \* argument of fail()
  outcome,          \* what retry() settled with
  extAborted,       \* options.signal.aborted
  combinedAborted,  \* combined.aborted of the current iteration
  timeoutAt,        \* deadline of the current AbortSignal.timeout, or Undef
  wakeAt,           \* deadline of the timer the call sleeps on
  tokens, lastRefill, acqWaited,
  permits,          \* acquire() calls of this retry() call that have completed
  acq,              \* the acquire() calls other users make on the limiter
  calls,            \* how many of those have been issued
  lastCall,         \* what the latest of them found
  lastUse,          \* when acquire() last ran on the limiter
  t0, waited,
  ovrCtx,           \* the context the pending override call was given
  opPending,        \* an invocation that lost the race is still running
  seen,             \* how the invocations of this call have ended so far: "res",
                    \* "rejE" (rejected with an Error), "rejN" (with another value),
                    \* "abortIn" / "abortPre" (lost the race), "accepted" (result kept)
  onRetryLog, giveUpLog,
  refusedAt, delayFalse, onRetryThrew,
  srcs,             \* the array handed to a stand-alone mergeAbortSignals call
  composite,        \* the signal it returned: "none" before the call
  listeners,        \* the sources whose 'abort' listener is still registered
  snapshot,         \* the array as it was at the call, and composite.aborted at return
  hintErr,          \* the value handed to a stand-alone extractRetryAfterMs call
  hint              \* whether it was called, and what it returned

vars ==
  << cfg, now, startTime, pc, attempts, invocations, cur, path, failErr, outcome,
     extAborted, combinedAborted, timeoutAt, wakeAt, tokens, lastRefill, acqWaited,
     permits, acq, calls, lastCall, lastUse, t0, waited, ovrCtx, opPending, seen, onRetryLog, giveUpLog,
     refusedAt, delayFalse, onRetryThrew, srcs, composite, listeners, snapshot,
     hintErr, hint >>

utilVars == << srcs, composite, listeners, snapshot, hintErr, hint >>

typeOK == cfg \in Configs

elapsed == now - startTime

\* --------------------------------------------------- pure parts of the code

\* the budget check lets an exactly exhausted budget through
BudgetExceeded_strict(maxElapsedTime, start, t) ==
  maxElapsedTime # Undef /\ t - start > maxElapsedTime

\* retry(): maxElapsedTime !== undefined && Date.now() - startTime >= maxElapsedTime
BudgetExceeded(maxElapsedTime, start, t) ==
  maxElapsedTime # Undef /\ t - start >= maxElapsedTime

\* a budget that is exactly used up still counts as remaining
hasBudget_inclusive(maxElapsedTime, start, t, extra) ==
  IF maxElapsedTime = Undef THEN TRUE ELSE (t - start) + extra <= maxElapsedTime

\* the extra wait is left out of the sum
hasBudget_ignoresExtra(maxElapsedTime, start, t, extra) ==
  IF maxElapsedTime = Undef THEN TRUE ELSE (t - start) < maxElapsedTime

\* runDelayWithOverride: hasBudget(extra = 0)
hasBudget(maxElapsedTime, start, t, extra) ==
  IF maxElapsedTime = Undef THEN TRUE ELSE (t - start) + extra < maxElapsedTime

\* off by one: one retry too many
RetriesLeft_offByOne(a, retries) == a <= retries

\* retry(): attempts < retries (first conjunct of canRetry)
RetriesLeft(a, retries) == a < retries

\* the answer of retryIf is ignored
canRetry_ignoresAnswer(a, retries, hasRetryIf, answer) == RetriesLeft(a, retries)

\* retry(): canRetry = attempts < retries && (!retryIf || (await retryIf(err, attempts + 1)))
\* (answer is what retryIf resolved with; it is only asked when retries are left)
canRetry(a, retries, hasRetryIf, answer) ==
  RetriesLeft(a, retries) /\ (~hasRetryIf \/ answer)

\* every rejection value is forwarded to onRetry
instanceofError_anything(err) == TRUE

\* retry(), line 189: err instanceof Error
instanceofError(err) == err.isError

\* onRetry is called before attempts is incremented
onRetryCall_staleAttempt(log, err, a) == Append(log, << a - 1, err.inv >>)

\* retry(): onRetry?.(err, attempts), as an entry of the log of onRetry calls
onRetryCall(log, err, a) == Append(log, << a, err.inv >>)

\* the result path gives up one attempt early
ResultRetriesExhausted_early(a, retries) == a >= retries

\* the result path has one retry more than the error path
ResultRetriesExhausted_oneMore(a, retries) == a > retries + 1

\* retry(): if (attempts > retries) return result
ResultRetriesExhausted(a, retries) == a > retries

\* an absent entry aborts the composite
mergeAbortSignals_undefinedAborts(sigs) ==
  \E i \in DOMAIN sigs : sigs[i] \in {"aborted", "undefined"}

\* the composite ignores the state of its sources
mergeAbortSignals_neverAborted(sigs) == FALSE

\* mergeAbortSignals: the composite is aborted at return iff some source already is
\* (entries: "undefined", "live" or "aborted")
mergeAbortSignals(sigs) == \E i \in DOMAIN sigs : sigs[i] = "aborted"

\* only the first live source gets a listener
mergeListeners_firstOnly(sigs) ==
  { i \in DOMAIN sigs : sigs[i] = "live" /\ \A j \in 1..(i - 1) : sigs[j] # "live" }

\* mergeAbortSignals, lines 37-47: the sources that get an 'abort' listener are the
\* live ones the loop reaches before it breaks at an aborted one
mergeListeners(sigs) ==
  { i \in DOMAIN sigs : sigs[i] = "live" /\ \A j \in 1..(i - 1) : sigs[j] # "aborted" }

\* the signals array retry() hands to mergeAbortSignals: the external signal if
\* given, then a fresh (not yet aborted) AbortSignal.timeout
Signals ==
  (IF cfg.hasSignal THEN << IF extAborted THEN "aborted" ELSE "live" >> ELSE << >>)
  \o (IF cfg.timeout # Undef THEN << "live" >> ELSE << >>)

\* --- httpRetrySignals.ts
\* A header value is a string, known here by what Number() and Date.parse make
\* of it: "number" (a decimal number v), "big" (a decimal number above ten
\* billion, an epoch in milliseconds that denotes the instant v of the model's
\* clock), "blank" (empty or white space: Number gives 0), "date" (an HTTP date
\* denoting the instant v), "garbage" (neither), or "absent" (no such header).
HeaderValue(k, v) == [k |-> k, v |-> v]
AbsentHeader == HeaderValue("absent", 0)
\* the container pickHeaders finds: has a Retry-After and a reset header, and its
\* accessor may throw
NoHeaders == [present |-> FALSE, throws |-> FALSE, retryAfter |-> AbsentHeader,
              reset |-> AbsentHeader]

\* what extractRetryAfterMs reads of the value thrown: retryAfterMs is Undef
\* (absent), NaN (a non-finite number or anything not numeric) or a number
ErrorObject(v) ==
  [isObject |-> v.isError, retryAfterMs |-> v.retryAfterMs, headers |-> NoHeaders,
   status |-> v.status]

\* toFiniteNumber on a number field / on a header string
toFiniteNumber(v) == IF v = NaN THEN Undef ELSE v
Number(h) ==
  CASE h.k \in {"number", "big"} -> h.v
    [] h.k = "blank" -> 0
    [] OTHER -> NaN
DateParse(h) == IF h.k = "date" THEN h.v ELSE NaN

\* getHeader: undefined when the header is missing or the accessor throws
getHeader(headers, key) ==
  IF headers.throws THEN AbsentHeader
  ELSE IF key = "Retry-After" THEN headers.retryAfter ELSE headers.reset

\* ts > 10_000_000_000 ? ts : ts * 1000
EpochMs(h) == IF h.k = "big" THEN h.v ELSE Number(h) * 1000

\* the status code is looked at before the headers
extractRetryAfterMs_statusFirst(e, dateNow) ==
  IF ~e.isObject THEN Undef
  ELSE IF toFiniteNumber(e.retryAfterMs) # Undef THEN toFiniteNumber(e.retryAfterMs)
  ELSE IF e.status = TooManyRequests \/ e.status = ServiceUnavailable
    THEN DefaultRetryAfterMs
  ELSE LET ra == getHeader(e.headers, "Retry-After")
           reset == getHeader(e.headers, "x-ratelimit-reset")
       IN IF e.headers.present /\ Number(ra) # NaN THEN Max(0, Number(ra) * 1000)
          ELSE IF e.headers.present /\ DateParse(ra) # NaN /\ DateParse(ra) - dateNow > 0
            THEN DateParse(ra) - dateNow
          ELSE IF e.headers.present /\ Number(reset) # NaN /\ EpochMs(reset) - dateNow > 0
            THEN EpochMs(reset) - dateNow
          ELSE Undef

\* extractRetryAfterMs(err), Date.now() reading dateNow
extractRetryAfterMs(e, dateNow) ==
  IF ~e.isObject THEN Undef   \* isObject(err) fails for a primitive
  ELSE IF toFiniteNumber(e.retryAfterMs) # Undef THEN toFiniteNumber(e.retryAfterMs)
  ELSE LET ra == getHeader(e.headers, "Retry-After")
           reset == getHeader(e.headers, "x-ratelimit-reset")
       IN IF e.headers.present /\ Number(ra) # NaN THEN Max(0, Number(ra) * 1000)
          ELSE IF e.headers.present /\ DateParse(ra) # NaN /\ DateParse(ra) - dateNow > 0
            THEN DateParse(ra) - dateNow
          ELSE IF e.headers.present /\ Number(reset) # NaN /\ EpochMs(reset) - dateNow > 0
            THEN EpochMs(reset) - dateNow
          ELSE IF e.status = TooManyRequests \/ e.status = ServiceUnavailable
            THEN DefaultRetryAfterMs
          ELSE Undef

MathMax(a, b) == IF a = NaN \/ b = NaN THEN NaN ELSE Max(a, b)

\* withHttpHints: typeof hinted === 'number' ? Math.max(hinted, inner) : inner
withHttpHints(hinted, inner) ==
  IF hinted # Undef THEN MathMax(hinted, inner) ELSE inner

\* runDelayWithOverride: target, then extra = Math.max(0, target - waited)
Target(suggested, w) == IF suggested # NaN THEN Max(0, suggested) ELSE w

\* the whole target is slept on top of what delayFn took
Extra_wholeTarget(target, w) == IF target > w THEN target ELSE 0

Extra(target, w) == Max(0, target - w)

\* runDelayWithOverride, lines 124-129: the context handed to the override (its
\* lastError / lastResult is the value in cur)
NoCtx == [attempt |-> 0, suggestedDelayMs |-> 0]
overrideCtx(a, w) == [attempt |-> a, suggestedDelayMs |-> w]

\* refill forgets the cap
refill_uncapped(tk, last, t, lim) ==
  LET timePassed == t - last
      intervals == timePassed \div lim.interval
  IN IF intervals > 0
       THEN [tokens |-> tk + intervals * lim.tokensPerInterval, lastRefill |-> t]
       ELSE [tokens |-> tk, lastRefill |-> last]

\* refill credits one interval however many have passed
refill_oneInterval(tk, last, t, lim) ==
  LET timePassed == t - last
      intervals == timePassed \div lim.interval
  IN IF intervals > 0
       THEN [tokens |-> Min(lim.tokensPerInterval, tk + lim.tokensPerInterval),
             lastRefill |-> t]
       ELSE [tokens |-> tk, lastRefill |-> last]

\* refill moves the timestamp by the credited intervals and keeps the remainder
refill_keepsRemainder(tk, last, t, lim) ==
  LET timePassed == t - last
      intervals == timePassed \div lim.interval
  IN IF intervals > 0
       THEN [tokens |-> Min(lim.tokensPerInterval, tk + intervals * lim.tokensPerInterval),
             lastRefill |-> last + intervals * lim.interval]
       ELSE [tokens |-> tk, lastRefill |-> last]

\* RateLimiter.refill
refill(tk, last, t, lim) ==
  LET timePassed == t - last
      intervals == timePassed \div lim.interval
  IN IF intervals > 0
       THEN [tokens |-> Min(lim.tokensPerInterval, tk + intervals * lim.tokensPerInterval),
             lastRefill |-> t]
       ELSE [tokens |-> tk, lastRefill |-> last]

\* the wait is a whole interval, whatever has passed of it
calculateDelay_wholeInterval(last, t, lim) ==
  CASE lim.jitterMode = "full" -> 0 .. (lim.interval - 1)
    [] lim.jitterMode = "equal" -> (lim.interval \div 2) .. (lim.interval - 1)
    [] OTHER -> {lim.interval}

\* 'equal' jitter draws from the whole range, as 'full' does
calculateDelay_equalAsFull(last, t, lim) ==
  LET baseDelay == lim.interval - (t - last)
  IN CASE lim.jitterMode \in {"full", "equal"} -> 0 .. (baseDelay - 1)
       [] OTHER -> {baseDelay}

\* RateLimiter.calculateDelay: the timer durations Math.random() allows
\* (setTimeout truncates to whole milliseconds)
calculateDelay(last, t, lim) ==
  LET baseDelay == lim.interval - (t - last)
  IN CASE lim.jitterMode = "full" -> 0 .. (baseDelay - 1)
       [] lim.jitterMode = "equal" -> (baseDelay \div 2) .. (baseDelay - 1)
       [] OTHER -> {baseDelay}

\* ------------------------------------------------------------------ state

\* the state in which retry() reaches its loop, the limiter just constructed
InitCall ==
  /\ now = 0
  /\ startTime = 0
  /\ pc = "loop"
  /\ attempts = 0
  /\ invocations = 0
  /\ cur = NoVal
  /\ path = "none"
  /\ failErr = NoVal
  /\ outcome = NoVal
  /\ extAborted \in (IF cfg.hasSignal THEN BOOLEAN ELSE {FALSE})
  /\ combinedAborted = FALSE
  /\ timeoutAt = Undef
  /\ wakeAt = Undef
  \* rateLimit builds a fresh (full) limiter; a provided rateLimiter is shared with
  \* other calls, which have emptied it
  /\ tokens = (IF cfg.limiter.kind = "rateLimiter" THEN 0 ELSE cfg.limiter.tokensPerInterval)
  /\ lastRefill = 0
  /\ acqWaited = FALSE
  /\ permits = 0
  /\ acq = [c \in Callers |-> IdleCaller]
  /\ calls = 0
  /\ lastCall = NoCall
  /\ lastUse = 0
  /\ t0 = 0
  /\ waited = 0
  /\ ovrCtx = NoCtx
  /\ opPending = FALSE
  /\ seen = {}
  /\ onRetryLog = << >>
  /\ giveUpLog = << >>
  /\ refusedAt = 0
  /\ delayFalse = FALSE
  /\ onRetryThrew = FALSE

\* no stand-alone call of mergeAbortSignals or of extractRetryAfterMs is made
NoMerge == [called |-> FALSE, inputs |-> << >>, aborted |-> FALSE]
MergeIdle == srcs = << >> /\ composite = "none" /\ listeners = {} /\ snapshot = NoMerge
NoHint == [called |-> FALSE, ms |-> Undef]
HintIdle == hintErr = ErrorObject(NoVal) /\ hint = NoHint

Init ==
  /\ cfg \in Configs
  /\ InitCall
  /\ MergeIdle
  /\ HintIdle

timeVars == << now, startTime >>
poolVars == << acq, calls, lastCall, lastUse >>
limVars == << tokens, lastRefill, acqWaited, permits, poolVars >>
sigVars == << extAborted, combinedAborted >>
delayVars == << t0, waited, ovrCtx >>
ghostVars == << refusedAt, delayFalse, onRetryThrew >>

\* fail throws without telling onGiveUp
fail_withoutGiveUp(e, n) ==
  /\ failErr' = e
  /\ pc' = "awaitGiveUp"
  /\ giveUpLog' = giveUpLog
  /\ outcome' = outcome

\* onGiveUp is handed the attempt counter as it stands, whatever the caller passed
fail_passesCounter(e, n) ==
  /\ failErr' = e
  /\ pc' = "awaitGiveUp"
  /\ giveUpLog' = Append(giveUpLog, << e, attempts >>)
  /\ outcome' = outcome

\* fail(err, attempts): await onGiveUp?.(err, attempts), swallow, then throw err
fail(e, n) ==
  /\ failErr' = e
  /\ pc' = "awaitGiveUp"
  /\ giveUpLog' = Append(giveUpLog, << e, n >>)
  /\ outcome' = outcome

\* return result
resolve(v) ==
  /\ pc' = "resolved"
  /\ outcome' = v

\* ---------------------------------------------------- retry(): loop head

\* lines 132-136
LoopBudgetExceeded ==
  /\ pc = "loop"
  /\ BudgetExceeded(cfg.maxElapsedTime, startTime, now)
  /\ fail(BudgetError, attempts)
  /\ UNCHANGED << cfg, utilVars, timeVars, attempts, invocations, cur, path, sigVars, timeoutAt,
                  wakeAt, limVars, delayVars, opPending, seen, onRetryLog, ghostVars >>

\* lines 141-147
LoopTimeoutUnsupported ==
  /\ pc = "loop"
  /\ ~BudgetExceeded(cfg.maxElapsedTime, startTime, now)
  /\ cfg.timeout # Undef /\ ~cfg.timeoutSupported
  /\ fail(ConfigError, attempts)
  /\ UNCHANGED << cfg, utilVars, timeVars, attempts, invocations, cur, path, sigVars, timeoutAt,
                  wakeAt, limVars, delayVars, opPending, seen, onRetryLog, ghostVars >>

LoopPassed ==
  /\ pc = "loop"
  /\ ~BudgetExceeded(cfg.maxElapsedTime, startTime, now)
  /\ cfg.timeout # Undef => cfg.timeoutSupported

\* attempts after the first skip the limiter
UsesLimiter_firstAttemptOnly(a) == cfg.limiter.kind # "none" /\ a = 0

\* line 157: if (rateLimiter) await rateLimiter.acquire(), on every iteration
UsesLimiter(a) == cfg.limiter.kind # "none"

\* lines 149-150
LoopAborted ==
  /\ LoopPassed
  /\ mergeAbortSignals(Signals)
  /\ fail(AbortError, attempts)
  /\ UNCHANGED << cfg, utilVars, timeVars, attempts, invocations, cur, path, sigVars, timeoutAt,
                  wakeAt, limVars, delayVars, opPending, seen, onRetryLog, ghostVars >>

\* lines 152-162 without a limiter: fn(combined) is called in the same block
LoopInvoke ==
  /\ LoopPassed
  /\ ~mergeAbortSignals(Signals)
  /\ ~UsesLimiter(attempts)
  /\ combinedAborted' = FALSE
  /\ timeoutAt' = (IF cfg.timeout # Undef THEN now + cfg.timeout ELSE Undef)
  /\ invocations' = invocations + 1
  /\ pc' = "inflight"
  /\ UNCHANGED << cfg, utilVars, timeVars, attempts, cur, path, failErr, outcome, extAborted,
                  wakeAt, limVars, delayVars, opPending, seen, onRetryLog, giveUpLog,
                  ghostVars >>

\* lines 152-157 with a limiter: acquire() up to its first await
LoopAcquire ==
  /\ LoopPassed
  /\ ~mergeAbortSignals(Signals)
  /\ UsesLimiter(attempts)
  /\ combinedAborted' = FALSE
  /\ timeoutAt' = (IF cfg.timeout # Undef THEN now + cfg.timeout ELSE Undef)
  /\ LET r == refill(tokens, lastRefill, now, cfg.limiter)
     IN /\ lastRefill' = r.lastRefill
        /\ IF r.tokens <= 0
             THEN /\ \E d \in calculateDelay(r.lastRefill, now, cfg.limiter) :
                       wakeAt' = now + Max(0, d)
                  /\ tokens' = r.tokens
                  /\ acqWaited' = TRUE
             ELSE /\ wakeAt' = now
                  /\ tokens' = r.tokens - 1
                  /\ acqWaited' = FALSE
  /\ pc' = "acquiring"
  /\ UNCHANGED << cfg, utilVars, timeVars, attempts, invocations, cur, path, failErr, outcome,
                  extAborted, delayVars, permits, poolVars, opPending, seen, onRetryLog, giveUpLog,
                  ghostVars >>

\* acquire() resumes after its timer (second refill, tokens--) or returns at once;
\* then line 159 calls fn(combined)
AcquireDone ==
  /\ pc = "acquiring"
  /\ now = wakeAt
  /\ IF acqWaited
       THEN LET r == refill(tokens, lastRefill, now, cfg.limiter)
            IN /\ tokens' = r.tokens - 1
               /\ lastRefill' = r.lastRefill
       ELSE UNCHANGED << tokens, lastRefill >>
  /\ acqWaited' = FALSE
  /\ wakeAt' = Undef
  /\ permits' = permits + 1
  /\ invocations' = invocations + 1
  /\ pc' = (IF combinedAborted THEN "raceLost" ELSE "inflight")
  /\ UNCHANGED << cfg, utilVars, timeVars, attempts, cur, path, failErr, outcome, sigVars,
                  timeoutAt, delayVars, poolVars, opPending, seen, onRetryLog, giveUpLog,
                  ghostVars >>

\* ------------------------------------------- retry(): the race (line 159)

\* fn's promise fulfils first (pc = "raceLost": it was already fulfilled when the
\* race subscribed, ahead of the rejected abortPromise); then line 164
OpResolves ==
  /\ pc \in {"inflight", "raceLost"}
  /\ cur' = Result(invocations)
  /\ timeoutAt' = Undef
  /\ IF cfg.hasRetryOnResult
       THEN /\ pc' = "awaitRetryOnResult"
            /\ outcome' = outcome
            /\ seen' = seen \cup {"res"}
       ELSE /\ resolve(Result(invocations))
            /\ seen' = seen \cup {"res", "accepted"}
  /\ UNCHANGED << cfg, utilVars, timeVars, attempts, invocations, path, failErr, sigVars, wakeAt,
                  limVars, delayVars, opPending, onRetryLog, giveUpLog, ghostVars >>

\* fn's promise rejects first: the catch block, lines 182-186
OpRejects ==
  /\ pc \in {"inflight", "raceLost"}
  /\ \E shape \in ErrShapes :
       LET err == OpError(invocations, shape)
       IN /\ cur' = err
          /\ seen' = seen \cup {IF shape.isError THEN "rejE" ELSE "rejN"}
          /\ IF combinedAborted
               THEN fail(err, attempts + 1)
               ELSE IF RetriesLeft(attempts, cfg.retries) /\ cfg.hasRetryIf
                 THEN /\ pc' = "awaitRetryIf"
                      /\ UNCHANGED << failErr, giveUpLog, outcome >>
               ELSE IF canRetry(attempts, cfg.retries, cfg.hasRetryIf, TRUE)
                 THEN /\ pc' = "retrying"
                      /\ UNCHANGED << failErr, giveUpLog, outcome >>
               ELSE fail(err, attempts + 1)
  /\ timeoutAt' = Undef
  /\ UNCHANGED << cfg, utilVars, timeVars, attempts, invocations, path, sigVars, wakeAt,
                  limVars, delayVars, opPending, onRetryLog, ghostVars >>

\* the race is entered with abortPromise already rejected and fn still pending:
\* the catch block sees combined.aborted (line 183)
AbortWins ==
  /\ pc = "raceLost"
  /\ cur' = AbortError
  /\ seen' = seen \cup {"abortPre"}
  /\ opPending' = TRUE
  /\ timeoutAt' = Undef
  /\ fail(AbortError, attempts + 1)
  /\ UNCHANGED << cfg, utilVars, timeVars, attempts, invocations, path, sigVars, wakeAt,
                  limVars, delayVars, onRetryLog, ghostVars >>

\* the cancelled invocation is left running and the loop goes on to the next attempt
abortInflight_nextAttempt ==
  /\ cur' = AbortError
  /\ seen' = seen \cup {"abortIn"}
  /\ opPending' = TRUE
  /\ combinedAborted' = TRUE
  /\ timeoutAt' = Undef
  /\ pc' = "loop"
  /\ UNCHANGED << failErr, giveUpLog, outcome >>

\* the race does not listen to the composed signal
abortInflight_ignored ==
  /\ seen' = seen \cup {"abortIn"}
  /\ combinedAborted' = TRUE
  /\ timeoutAt' = Undef
  /\ UNCHANGED << cur, opPending, pc, failErr, giveUpLog, outcome >>

\* the composed signal fires while fn is in flight: abortPromise rejects, the race
\* rejects with it, line 183
abortInflight ==
  /\ cur' = AbortError
  /\ seen' = seen \cup {"abortIn"}
  /\ opPending' = TRUE
  /\ combinedAborted' = TRUE
  /\ timeoutAt' = Undef
  /\ fail(AbortError, attempts + 1)

\* the permit wait listens to the signal: an abort ends it and the call
ExternalAbort_endsPermitWait ==
  /\ cfg.hasSignal
  /\ ~extAborted
  /\ pc \notin {"awaitGiveUp", "resolved", "rejected", "raceLost"}
  /\ extAborted' = TRUE
  /\ IF pc \in {"inflight", "acquiring"}
       THEN abortInflight
       ELSE /\ combinedAborted' = (combinedAborted \/ pc = "acquiring")
            /\ UNCHANGED << pc, cur, seen, opPending, timeoutAt, failErr, giveUpLog,
                            outcome >>
  /\ UNCHANGED << cfg, utilVars, timeVars, attempts, invocations, path, wakeAt, limVars,
                  delayVars, onRetryLog, ghostVars >>

\* options.signal fires
ExternalAbort ==
  /\ cfg.hasSignal
  /\ ~extAborted
  /\ pc \notin {"awaitGiveUp", "resolved", "rejected", "raceLost"}
  /\ extAborted' = TRUE
  /\ IF pc = "inflight"
       THEN abortInflight
       ELSE /\ combinedAborted' = (combinedAborted \/ pc = "acquiring")
            /\ UNCHANGED << pc, cur, seen, opPending, timeoutAt, failErr, giveUpLog,
                            outcome >>
  /\ UNCHANGED << cfg, utilVars, timeVars, attempts, invocations, path, wakeAt, limVars,
                  delayVars, onRetryLog, ghostVars >>

\* the timeout signal aborts, but the abort promise is not part of the race
TimeoutFires_notRaced ==
  /\ pc \in {"acquiring", "inflight"}
  /\ timeoutAt # Undef
  /\ now = timeoutAt
  /\ combinedAborted' = TRUE
  /\ timeoutAt' = Undef
  /\ UNCHANGED << pc, cur, seen, opPending, failErr, giveUpLog, outcome >>
  /\ UNCHANGED << cfg, utilVars, timeVars, attempts, invocations, path, extAborted, wakeAt,
                  limVars, delayVars, onRetryLog, ghostVars >>

\* the AbortSignal.timeout of the current iteration fires
TimeoutFires ==
  /\ pc \in {"acquiring", "inflight"}
  /\ timeoutAt # Undef
  /\ now = timeoutAt
  /\ IF pc = "inflight"
       THEN abortInflight
       ELSE /\ combinedAborted' = TRUE
            /\ timeoutAt' = Undef
            /\ UNCHANGED << pc, cur, seen, opPending, failErr, giveUpLog, outcome >>
  /\ UNCHANGED << cfg, utilVars, timeVars, attempts, invocations, path, extAborted, wakeAt,
                  limVars, delayVars, onRetryLog, ghostVars >>

\* the late settlement is handled like a failed attempt: fail() runs once more
LateOpSettles_handled ==
  /\ opPending
  /\ opPending' = FALSE
  /\ giveUpLog' = Append(giveUpLog, << cur, attempts + 1 >>)
  /\ UNCHANGED << cfg, utilVars, timeVars, pc, attempts, invocations, cur, path, failErr, outcome,
                  sigVars, timeoutAt, wakeAt, limVars, delayVars, seen, onRetryLog,
                  ghostVars >>

\* an invocation that lost the race settles; nothing listens any more
LateOpSettles ==
  /\ opPending
  /\ opPending' = FALSE
  /\ UNCHANGED << cfg, utilVars, timeVars, pc, attempts, invocations, cur, path, failErr, outcome,
                  sigVars, timeoutAt, wakeAt, limVars, delayVars, seen, onRetryLog,
                  giveUpLog, ghostVars >>

\* ----------------------------------------- retry(): result path, 164-181

\* an accepted result counts as an attempt too
RetryOnResultReturns_countsAccepted ==
  /\ pc = "awaitRetryOnResult"
  /\ \E b \in BOOLEAN :
       IF ~b
         THEN /\ resolve(cur)
              /\ seen' = seen \cup {"accepted"}
              /\ attempts' = attempts + 1
              /\ path' = path
         ELSE /\ attempts' = attempts + 1
              /\ seen' = seen
              /\ IF ResultRetriesExhausted(attempts + 1, cfg.retries)
                   THEN resolve(cur) /\ path' = path
                   ELSE pc' = "delayEntry" /\ path' = "result" /\ outcome' = outcome
  /\ UNCHANGED << cfg, utilVars, timeVars, invocations, cur, failErr, sigVars, timeoutAt, wakeAt,
                  limVars, delayVars, opPending, onRetryLog, giveUpLog, ghostVars >>

\* await retryOnResult(result, attempts + 1) settles: lines 164-179
RetryOnResultReturns ==
  /\ pc = "awaitRetryOnResult"
  /\ \E b \in BOOLEAN :
       IF ~b
         THEN /\ resolve(cur)
              /\ seen' = seen \cup {"accepted"}
              /\ UNCHANGED << attempts, path >>
         ELSE /\ attempts' = attempts + 1
              /\ seen' = seen
              /\ IF ResultRetriesExhausted(attempts + 1, cfg.retries)
                   THEN resolve(cur) /\ path' = path
                   ELSE pc' = "delayEntry" /\ path' = "result" /\ outcome' = outcome
  /\ UNCHANGED << cfg, utilVars, timeVars, invocations, cur, failErr, sigVars, timeoutAt, wakeAt,
                  limVars, delayVars, opPending, onRetryLog, giveUpLog, ghostVars >>

\* ------------------------------------------ retry(): error path, 185-189

RetryIfReturns ==
  /\ pc = "awaitRetryIf"
  /\ \E b \in BOOLEAN :
       IF canRetry(attempts, cfg.retries, cfg.hasRetryIf, b)
         THEN /\ pc' = "retrying"
              /\ refusedAt' = (IF b THEN refusedAt ELSE invocations)
              /\ UNCHANGED << failErr, giveUpLog, outcome >>
         ELSE /\ fail(cur, attempts + 1)
              /\ refusedAt' = (IF b THEN refusedAt ELSE invocations)
  /\ UNCHANGED << cfg, utilVars, timeVars, attempts, invocations, cur, path, sigVars, timeoutAt,
                  wakeAt, limVars, delayVars, opPending, seen, onRetryLog,
                  delayFalse, onRetryThrew >>

\* attempts++; if (err instanceof Error) onRetry?.(err, attempts); then the call of
\* runDelayWithOverride.  An exception thrown by onRetry leaves the catch block.
DoRetry ==
  /\ pc = "retrying"
  /\ attempts' = attempts + 1
  /\ IF instanceofError(cur)
       THEN /\ onRetryLog' = onRetryCall(onRetryLog, cur, attempts + 1)
            /\ \E throws \in BOOLEAN :
                 IF throws
                   THEN /\ pc' = "rejected"
                        /\ outcome' = CallbackError
                        /\ onRetryThrew' = TRUE
                        /\ path' = path
                   ELSE /\ pc' = "delayEntry"
                        /\ path' = "error"
                        /\ UNCHANGED << outcome, onRetryThrew >>
       ELSE /\ pc' = "delayEntry"
            /\ path' = "error"
            /\ UNCHANGED << onRetryLog, outcome, onRetryThrew >>
  /\ UNCHANGED << cfg, utilVars, timeVars, invocations, cur, failErr, sigVars, timeoutAt, wakeAt,
                  limVars, delayVars, opPending, seen, giveUpLog, refusedAt, delayFalse >>

\* await onGiveUp(...) settles, fulfilled or rejected (the catch swallows it); throw err
GiveUpReturns ==
  /\ pc = "awaitGiveUp"
  /\ pc' = "rejected"
  /\ outcome' = failErr
  /\ UNCHANGED << cfg, utilVars, timeVars, attempts, invocations, cur, path, failErr, sigVars,
                  timeoutAt, wakeAt, limVars, delayVars, opPending, seen, onRetryLog,
                  giveUpLog, refusedAt, delayFalse, onRetryThrew >>

\* ------------------------------------------------- runDelayWithOverride

\* the caller turns a refused delay into the budget error on both paths
delayReturn_budgetError(ok) ==
  /\ t0' = 0
  /\ waited' = 0
  /\ ovrCtx' = NoCtx
  /\ IF ok
       THEN /\ pc' = "loop"
            /\ UNCHANGED << failErr, giveUpLog, outcome, delayFalse >>
       ELSE /\ delayFalse' = TRUE
            /\ fail(BudgetError, attempts)

\* on the failure path a refused delay is reported with the budget error
delayReturn_taggedRejection(ok) ==
  /\ t0' = 0
  /\ waited' = 0
  /\ ovrCtx' = NoCtx
  /\ IF ok
       THEN /\ pc' = "loop"
            /\ UNCHANGED << failErr, giveUpLog, outcome, delayFalse >>
       ELSE /\ delayFalse' = TRUE
            /\ IF path = "result"
                 THEN resolve(cur) /\ UNCHANGED << failErr, giveUpLog >>
                 ELSE fail(BudgetError, attempts)

\* what the caller does with the returned boolean: lines 177-178 and 200
delayReturn(ok) ==
  /\ t0' = 0
  /\ waited' = 0
  /\ ovrCtx' = NoCtx
  /\ IF ok
       THEN /\ pc' = "loop"
            /\ UNCHANGED << failErr, giveUpLog, outcome, delayFalse >>
       ELSE /\ delayFalse' = TRUE
            /\ IF path = "result"
                 THEN resolve(cur) /\ UNCHANGED << failErr, giveUpLog >>
                 ELSE fail(cur, attempts)

\* the override the caller passes: nextDelayOverride on the result path,
\* withHttpHints(nextDelayOverride, err) (always a function) on the error path
HasOverrideArg == path = "error" \/ cfg.hasOverride

\* line 113
DelayNoBudget ==
  /\ pc = "delayEntry"
  /\ ~hasBudget(cfg.maxElapsedTime, startTime, now, 0)
  /\ delayReturn(FALSE)
  /\ UNCHANGED << cfg, utilVars, timeVars, attempts, invocations, cur, path, sigVars, timeoutAt,
                  wakeAt, limVars, opPending, seen, onRetryLog,
                  refusedAt, onRetryThrew >>

\* lines 115-119: delayFn(attempt) starts
DelayBaseStarts ==
  /\ pc = "delayEntry"
  /\ hasBudget(cfg.maxElapsedTime, startTime, now, 0)
  /\ cfg.hasDelayFn
  /\ t0' = now
  /\ waited' = 0
  /\ ovrCtx' = ovrCtx
  /\ pc' = "delaying"
  /\ UNCHANGED << cfg, utilVars, timeVars, attempts, invocations, cur, path, failErr, outcome,
                  sigVars, timeoutAt, wakeAt, limVars, opPending, seen, onRetryLog,
                  giveUpLog, ghostVars >>

\* no delayFn: waited stays 0
DelayNoBase ==
  /\ pc = "delayEntry"
  /\ hasBudget(cfg.maxElapsedTime, startTime, now, 0)
  /\ ~cfg.hasDelayFn
  /\ waited' = 0
  /\ pc' = "afterBase"
  /\ UNCHANGED << cfg, utilVars, timeVars, attempts, invocations, cur, path, failErr, outcome,
                  sigVars, timeoutAt, wakeAt, limVars, t0, ovrCtx, opPending, seen, onRetryLog,
                  giveUpLog, ghostVars >>

\* delayFn's promise resolves: waited = Date.now() - t0
DelayFnReturns ==
  /\ pc = "delaying"
  /\ waited' = now - t0
  /\ pc' = "afterBase"
  /\ UNCHANGED << cfg, utilVars, timeVars, attempts, invocations, cur, path, failErr, outcome,
                  sigVars, timeoutAt, wakeAt, limVars, t0, ovrCtx, opPending, seen, onRetryLog,
                  giveUpLog, ghostVars >>

\* line 122
DelayNoOverride ==
  /\ pc = "afterBase"
  /\ ~HasOverrideArg
  /\ delayReturn(hasBudget(cfg.maxElapsedTime, startTime, now, 0))
  /\ UNCHANGED << cfg, utilVars, timeVars, attempts, invocations, cur, path, sigVars, timeoutAt,
                  wakeAt, limVars, opPending, seen, onRetryLog,
                  refusedAt, onRetryThrew >>

\* lines 124-129: the override is called
DelayCallsOverride ==
  /\ pc = "afterBase"
  /\ HasOverrideArg
  /\ ovrCtx' = overrideCtx(attempts, waited)
  /\ pc' = "awaitOverride"
  /\ UNCHANGED << cfg, utilVars, timeVars, attempts, invocations, cur, path, failErr, outcome,
                  sigVars, timeoutAt, wakeAt, limVars, t0, waited, opPending, seen,
                  onRetryLog, giveUpLog, ghostVars >>

\* what the override resolves with, v being the caller's nextDelayOverride result
Suggested(v) ==
  LET inner == IF cfg.hasOverride THEN v ELSE waited
  IN IF path = "error" THEN withHttpHints(extractRetryAfterMs(ErrorObject(cur), now), inner) ELSE inner

\* lines 131-139
DelayOverrideReturns ==
  /\ pc = "awaitOverride"
  /\ \E v \in (IF cfg.hasOverride THEN OverrideChoices ELSE {waited}) :
       LET extra == Extra(Target(Suggested(v), waited), waited)
       IN IF extra = 0
            THEN /\ delayReturn(hasBudget(cfg.maxElapsedTime, startTime, now, 0))
                 /\ wakeAt' = wakeAt
            ELSE IF ~hasBudget(cfg.maxElapsedTime, startTime, now, extra)
              THEN /\ delayReturn(FALSE)
                   /\ wakeAt' = wakeAt
              ELSE /\ pc' = "extraDelay"
                   /\ wakeAt' = now + extra
                   /\ UNCHANGED << failErr, giveUpLog, outcome, delayFalse, delayVars >>
  /\ UNCHANGED << cfg, utilVars, timeVars, attempts, invocations, cur, path, sigVars, timeoutAt,
                  limVars, opPending, seen, onRetryLog,
                  refusedAt, onRetryThrew >>

\* delayMs(extra) resolves; line 140
DelayExtraDone ==
  /\ pc = "extraDelay"
  /\ now = wakeAt
  /\ wakeAt' = Undef
  /\ delayReturn(hasBudget(cfg.maxElapsedTime, startTime, now, 0))
  /\ UNCHANGED << cfg, utilVars, timeVars, attempts, invocations, cur, path, sigVars, timeoutAt,
                  limVars, opPending, seen, onRetryLog,
                  refusedAt, onRetryThrew >>

\* ------------------------------------------------------------------ clock

TimerPcs == {"acquiring", "extraDelay"}
\* suspended on caller code, which takes as long as it takes
CallerPcs == {"inflight", "delaying"}

Deadlines ==
  (IF pc \in TimerPcs THEN {wakeAt} ELSE {})
  \cup (IF timeoutAt # Undef THEN {timeoutAt} ELSE {})

\* time passes: by a millisecond while caller code runs (up to MaxTime), or straight
\* to the next timer deadline; never past a pending timer
Advance ==
  /\ pc \in TimerPcs \cup CallerPcs
  /\ \E t \in ({now + 1} \cup Deadlines) :
       /\ t > now
       /\ \A d \in Deadlines : t <= d
       /\ t \in Deadlines \/ (pc \in CallerPcs /\ t <= MaxTime)
       /\ now' = t
  /\ UNCHANGED << cfg, utilVars, startTime, pc, attempts, invocations, cur, path, failErr, outcome,
                  sigVars, timeoutAt, wakeAt, limVars, delayVars, opPending, seen,
                  onRetryLog, giveUpLog, ghostVars >>

Next ==
  \/ LoopBudgetExceeded
  \/ LoopTimeoutUnsupported
  \/ LoopAborted
  \/ LoopInvoke
  \/ LoopAcquire
  \/ AcquireDone
  \/ OpResolves
  \/ OpRejects
  \/ AbortWins
  \/ ExternalAbort
  \/ TimeoutFires
  \/ LateOpSettles
  \/ RetryOnResultReturns
  \/ RetryIfReturns
  \/ DoRetry
  \/ GiveUpReturns
  \/ DelayNoBudget
  \/ DelayBaseStarts
  \/ DelayNoBase
  \/ DelayFnReturns
  \/ DelayNoOverride
  \/ DelayCallsOverride
  \/ DelayOverrideReturns
  \/ DelayExtraDone
  \/ Advance

Spec == Init /\ [][Next]_vars

\* the steps the engine, its callbacks and its timers take by themselves: every
\* step of a call but the operation settling and the caller's abort
EngineStep ==
  \/ LoopBudgetExceeded
  \/ LoopTimeoutUnsupported
  \/ LoopAborted
  \/ LoopInvoke
  \/ LoopAcquire
  \/ AcquireDone
  \/ AbortWins
  \/ TimeoutFires
  \/ RetryOnResultReturns
  \/ RetryIfReturns
  \/ DoRetry
  \/ GiveUpReturns
  \/ DelayNoBudget
  \/ DelayBaseStarts
  \/ DelayNoBase
  \/ DelayFnReturns
  \/ DelayNoOverride
  \/ DelayCallsOverride
  \/ DelayOverrideReturns
  \/ DelayExtraDone
  \/ Advance

\* the invocation raced at lines 159-162 settles
OperationSettles == OpResolves \/ OpRejects

\* callbacks return, due timers fire and the clock does not stop; an invocation
\* is only assumed to settle when no per-attempt timeout is configured
SpecLive ==
  /\ Spec
  /\ WF_vars(EngineStep)
  /\ WF_vars(cfg.timeout = Undef /\ OperationSettles)

\* ------------------------------------------- one RateLimiter, many callers

\* options a RateLimiter is constructed with; jitterMode may be omitted
LimCapacities == {1, 2}
LimIntervals == {2, 3}
LimLimiters ==
  [kind : {"rateLimit"}, tokensPerInterval : LimCapacities, interval : LimIntervals,
   jitterMode : JitterModes \cup {"undefined"}]

\* the retry() options do not matter here: the call stays at its first loop head
LimConfigs ==
  { [retries |-> 0, maxElapsedTime |-> Undef, timeout |-> Undef, timeoutSupported |-> TRUE,
     hasSignal |-> FALSE, hasDelayFn |-> FALSE, hasOverride |-> FALSE,
     hasRetryIf |-> FALSE, hasRetryOnResult |-> FALSE, limiter |-> l] : l \in LimLimiters }

\* constructor: this.options = { ...options, jitterMode: options.jitterMode || 'none' }
LimOptions(l) ==
  [l EXCEPT !.jitterMode = IF @ = "undefined" THEN "none" ELSE @]

Opts == LimOptions(cfg.limiter)

LimInit ==
  /\ cfg \in LimConfigs
  /\ InitCall
  /\ MergeIdle
  /\ HintIdle

callVars ==
  << cfg, utilVars, startTime, pc, attempts, invocations, cur, path, failErr, outcome, sigVars,
     timeoutAt, wakeAt, acqWaited, permits, delayVars, opPending, seen, onRetryLog,
     giveUpLog, ghostVars >>

\* callers are queued: a caller waits one more interval for every caller already
\* waiting
AcquireCalled_queued(c) ==
  /\ acq[c].st \in {"idle", "done"}
  /\ calls < MaxCalls
  /\ LET r == refill(tokens, lastRefill, now, Opts)
         found == [NoCall EXCEPT !.idleFor = now - lastUse, !.before = tokens,
                                 !.avail = r.tokens]
     IN /\ lastRefill' = r.lastRefill
        /\ IF r.tokens <= 0
             THEN /\ tokens' = r.tokens
                  /\ \E d \in calculateDelay(r.lastRefill, now, Opts) :
                       /\ acq' = [acq EXCEPT ![c] = [st |-> "waiting",
                                                     wake |-> now + Max(0, d) + Opts.interval
                                                       * Cardinality({ x \in Callers :
                                                           acq[x].st = "waiting" })]]
                       /\ lastCall' =
                            [found EXCEPT !.waited = TRUE, !.delay = d, !.by = c,
                                          !.base = Opts.interval - (now - r.lastRefill)]
             ELSE /\ tokens' = r.tokens - 1
                  /\ acq' = [acq EXCEPT ![c] = [st |-> "done", wake |-> 0]]
                  /\ lastCall' = found
  /\ calls' = calls + 1
  /\ lastUse' = now
  /\ UNCHANGED << callVars, now >>

\* caller c calls acquire(): refill, then either tokens-- and return, or the timer
AcquireCalled(c) ==
  /\ acq[c].st \in {"idle", "done"}
  /\ calls < MaxCalls
  /\ LET r == refill(tokens, lastRefill, now, Opts)
         found == [NoCall EXCEPT !.idleFor = now - lastUse, !.before = tokens,
                                 !.avail = r.tokens]
     IN /\ lastRefill' = r.lastRefill
        /\ IF r.tokens <= 0
             THEN /\ tokens' = r.tokens
                  /\ \E d \in calculateDelay(r.lastRefill, now, Opts) :
                       /\ acq' = [acq EXCEPT ![c] = [st |-> "waiting",
                                                     wake |-> now + Max(0, d)]]
                       /\ lastCall' =
                            [found EXCEPT !.waited = TRUE, !.delay = d, !.by = c,
                                          !.base = Opts.interval - (now - r.lastRefill)]
             ELSE /\ tokens' = r.tokens - 1
                  /\ acq' = [acq EXCEPT ![c] = [st |-> "done", wake |-> 0]]
                  /\ lastCall' = found
  /\ calls' = calls + 1
  /\ lastUse' = now
  /\ UNCHANGED << callVars, now >>

\* a woken caller goes on only if the refill left it a token
AcquireResumes_needsToken(c) ==
  /\ acq[c].st = "waiting"
  /\ now = acq[c].wake
  /\ LET r == refill(tokens, lastRefill, now, Opts)
     IN /\ r.tokens > 0
        /\ tokens' = r.tokens - 1
        /\ lastRefill' = r.lastRefill
  /\ acq' = [acq EXCEPT ![c] = [st |-> "done", wake |-> 0]]
  /\ lastUse' = now
  /\ UNCHANGED << callVars, now, calls, lastCall >>

\* a woken caller takes a token only if the refill left one
AcquireResumes_skipsEmpty(c) ==
  /\ acq[c].st = "waiting"
  /\ now = acq[c].wake
  /\ LET r == refill(tokens, lastRefill, now, Opts)
     IN /\ tokens' = (IF r.tokens > 0 THEN r.tokens - 1 ELSE r.tokens)
        /\ lastRefill' = r.lastRefill
  /\ acq' = [acq EXCEPT ![c] = [st |-> "done", wake |-> 0]]
  /\ lastUse' = now
  /\ UNCHANGED << callVars, now, calls, lastCall >>

\* c's timer fires: refill again, tokens--, the promise resolves
AcquireResumes(c) ==
  /\ acq[c].st = "waiting"
  /\ now = acq[c].wake
  /\ LET r == refill(tokens, lastRefill, now, Opts)
     IN /\ tokens' = r.tokens - 1
        /\ lastRefill' = r.lastRefill
  /\ acq' = [acq EXCEPT ![c] = [st |-> "done", wake |-> 0]]
  /\ lastUse' = now
  /\ UNCHANGED << callVars, now, calls, lastCall >>

LimDeadlines == { acq[c].wake : c \in { x \in Callers : acq[x].st = "waiting" } }

\* time passes, never past a pending timer
LimAdvance ==
  /\ \E t \in ({now + 1} \cup LimDeadlines) :
       /\ t > now
       /\ \A d \in LimDeadlines : t <= d
       /\ t \in LimDeadlines \/ t <= MaxLimTime
       /\ now' = t
  /\ UNCHANGED << callVars, tokens, lastRefill, poolVars >>

LimNext ==
  \/ \E c \in Callers : AcquireCalled(c)
  \/ \E c \in Callers : AcquireResumes(c)
  \/ LimAdvance

LimiterSpec == LimInit /\ [][LimNext]_vars

\* every timer that is due fires, and the clock does not stop
LimiterLive ==
  /\ LimiterSpec
  /\ \A c \in Callers : WF_vars(AcquireResumes(c))
  /\ WF_vars(LimAdvance)

\* --------------------------------------- mergeAbortSignals on its own

\* the retry() call and the limiter stay untouched in the stand-alone runs
IdleConfig ==
  [retries |-> 0, maxElapsedTime |-> Undef, timeout |-> Undef, timeoutSupported |-> TRUE,
   hasSignal |-> FALSE, hasDelayFn |-> FALSE, hasOverride |-> FALSE,
   hasRetryIf |-> FALSE, hasRetryOnResult |-> FALSE,
   limiter |-> [kind |-> "none", tokensPerInterval |-> 1, interval |-> 1,
                jitterMode |-> "none"]]

SignalStates == {"undefined", "live", "aborted"}
SignalArrays == UNION { [1..n -> SignalStates] : n \in 0..MaxSignals }

MergeInit ==
  /\ cfg = IdleConfig
  /\ InitCall
  /\ srcs \in SignalArrays
  /\ composite = "none" /\ listeners = {} /\ snapshot = NoMerge
  /\ HintIdle

restVars ==
  << cfg, now, startTime, pc, attempts, invocations, cur, path, failErr, outcome, sigVars,
     timeoutAt, wakeAt, limVars, delayVars, opPending, seen, onRetryLog, giveUpLog,
     ghostVars >>

\* mergeAbortSignals(srcs) with a controller of its own (no caller passes one)
MergeCalled ==
  /\ composite = "none"
  /\ composite' = (IF mergeAbortSignals(srcs) THEN "aborted" ELSE "live")
  /\ listeners' = mergeListeners(srcs)
  /\ snapshot' = [called |-> TRUE, inputs |-> srcs, aborted |-> mergeAbortSignals(srcs)]
  /\ UNCHANGED << restVars, srcs, hintErr, hint >>

\* source i fires: its listener, if registered, runs internalController.abort()
\* and is removed ({ once: true })
SourceFires(i) ==
  /\ srcs[i] = "live"
  /\ srcs' = [srcs EXCEPT ![i] = "aborted"]
  /\ composite' = (IF i \in listeners THEN "aborted" ELSE composite)
  /\ listeners' = listeners \ {i}
  /\ UNCHANGED << restVars, snapshot, hintErr, hint >>

MergeNext ==
  \/ MergeCalled
  \/ \E i \in DOMAIN srcs : SourceFires(i)

MergeSpec == MergeInit /\ [][MergeNext]_vars

\* --------------------------------------- extractRetryAfterMs on its own

MaxHintTime == 2

RetryAfterMsChoices == {Undef, NaN, 0, 7}
RetryAfterValues ==
  { AbsentHeader, HeaderValue("garbage", 0), HeaderValue("blank", 0),
    HeaderValue("number", 0 - 2), HeaderValue("number", 5),
    HeaderValue("date", 1), HeaderValue("date", 3) }
ResetValues ==
  { AbsentHeader, HeaderValue("garbage", 0), HeaderValue("number", 0),
    HeaderValue("number", 4), HeaderValue("big", 1), HeaderValue("big", 3) }
HeaderContainers ==
  {NoHeaders}
  \cup [present : {TRUE}, throws : BOOLEAN, retryAfter : RetryAfterValues,
        reset : ResetValues]
StatusChoices == {Undef, 500, TooManyRequests, ServiceUnavailable}
HintErrors ==
  [isObject : BOOLEAN, retryAfterMs : RetryAfterMsChoices, headers : HeaderContainers,
   status : StatusChoices]

HintInit ==
  /\ cfg = IdleConfig
  /\ InitCall
  /\ MergeIdle
  /\ hintErr \in HintErrors
  /\ hint = NoHint

hintRest ==
  << cfg, startTime, pc, attempts, invocations, cur, path, failErr, outcome, sigVars,
     timeoutAt, wakeAt, limVars, delayVars, opPending, seen, onRetryLog, giveUpLog,
     ghostVars, srcs, composite, listeners, snapshot >>

\* time passes between the making of the error and the call
HintClock ==
  /\ ~hint.called
  /\ now < MaxHintTime
  /\ now' = now + 1
  /\ UNCHANGED << hintRest, hintErr, hint >>

\* extractRetryAfterMs(hintErr)
ExtractCalled ==
  /\ ~hint.called
  /\ hint' = [called |-> TRUE, ms |-> extractRetryAfterMs(hintErr, now)]
  /\ UNCHANGED << hintRest, now, hintErr >>

HintNext ==
  \/ HintClock
  \/ ExtractCalled

HintSpec == HintInit /\ [][HintNext]_vars

\* ================================================================ claims

NoBudget == cfg.maxElapsedTime = Undef
NoCancellation == ~cfg.hasSignal /\ cfg.timeout = Undef

\* C1: with retries = n, no budget, no cancellation source, retryIf absent or never
\* refusing, and callbacks that return normally, an operation that fails on every
\* invocation is invoked exactly n + 1 times (never more while the call runs), and
\* the call then rejects with the error of the last invocation.
C1_AlwaysFailingInvokedNPlusOne ==
  (NoBudget /\ NoCancellation /\ refusedAt = 0 /\ ~onRetryThrew
     /\ seen \subseteq {"rejE", "rejN"})
  => /\ invocations <= cfg.retries + 1
     /\ pc # "resolved"
     /\ pc = "rejected" => /\ invocations = cfg.retries + 1
                           /\ outcome.kind = "error"
                           /\ outcome.message = "fail"
                           /\ outcome.inv = invocations

C1_Witness ==
  /\ pc = "rejected" /\ NoBudget /\ NoCancellation /\ ~cfg.hasRetryIf
  /\ seen \subseteq {"rejE", "rejN"} /\ ~onRetryThrew
  /\ cfg.retries = MaxRetries /\ invocations = MaxRetries + 1

\* C2: while every invocation so far has failed with an Error instance, the calls
\* of onRetry are exactly (1, error of invocation 1), (2, error of invocation 2),
\* ... in this order; and when the call has run to exhaustion (as in C1) there
\* are exactly n = retries of them.
C2_OnRetryNumbering ==
  (seen \subseteq {"rejE", "abortIn", "abortPre"})
  => /\ \A i \in 1..Len(onRetryLog) : onRetryLog[i] = << i, i >>
     /\ Len(onRetryLog) <= cfg.retries
     /\ (pc = "rejected" /\ NoBudget /\ NoCancellation /\ refusedAt = 0 /\ ~onRetryThrew)
          => Len(onRetryLog) = cfg.retries

C2_Witness ==
  /\ pc = "rejected" /\ seen = {"rejE"} /\ ~onRetryThrew
  /\ cfg.retries = MaxRetries /\ Len(onRetryLog) = MaxRetries

\* C3: once retryIf has answered false for the error of invocation k, the operation
\* has been invoked exactly k times (k <= retries) and is never invoked again, no
\* delay step is entered, and the call rejects with that k-th error.
C3_RetryIfRefusalIsFinal ==
  refusedAt > 0
  => /\ refusedAt <= cfg.retries
     /\ invocations = refusedAt
     /\ pc \in {"awaitGiveUp", "rejected"}
     /\ failErr = cur /\ cur.kind = "error" /\ cur.inv = refusedAt
     /\ pc = "rejected" => outcome = cur

C3_Witness ==
  pc = "rejected" /\ refusedAt = 2 /\ cfg.retries > 2 - 1 /\ outcome.inv = 2

OverBudget == cfg.maxElapsedTime # Undef /\ elapsed >= cfg.maxElapsedTime

\* a step that starts a wait: delayFn, the extra delay, or the limiter's timer
WaitStarts ==
  \/ pc # "delaying" /\ pc' = "delaying"
  \/ pc # "extraDelay" /\ pc' = "extraDelay"
  \/ pc = "loop" /\ pc' = "acquiring" /\ acqWaited'

\* C5: when maxElapsedTime = B is configured and B or more milliseconds have
\* elapsed, no step starts a wait (delayFn, extra override delay, limiter wait);
\* the loop head and the delay step finalize instead: the call goes to its
\* resolution or to fail(), the delay step at most consulting the override first.
C5_NoWaitStartsOverBudget ==
  [][OverBudget
       => /\ ~WaitStarts
          /\ (pc \in {"loop", "delayEntry", "awaitOverride"} /\ pc' # pc)
               => pc' \in {"resolved", "awaitGiveUp"}
          /\ (pc = "afterBase" /\ pc' # pc)
               => pc' \in {"resolved", "awaitGiveUp", "awaitOverride"}]_vars

C5_Witness ==
  /\ OverBudget /\ cfg.maxElapsedTime > 0 /\ delayFalse /\ ~cfg.hasDelayFn
  /\ pc = "rejected" /\ outcome = cur

\* C6: at the loop head, if maxElapsedTime is configured and the elapsed time is
\* >= maxElapsedTime, the attempt invokes nothing and the call fails with the error
\* named RetryMaxElapsedTimeExceeded, which is what it then rejects with; with
\* maxElapsedTime = 0 the operation is never invoked and the call never resolves.
C6_BudgetCheckAtAttemptStart ==
  /\ [](cfg.maxElapsedTime = 0
          => /\ invocations = 0
             /\ pc # "resolved"
             /\ pc = "rejected" => outcome.name = "RetryMaxElapsedTimeExceeded")
  /\ [][(pc = "loop" /\ OverBudget /\ pc' # pc)
          => /\ pc' = "awaitGiveUp"
             /\ failErr'.name = "RetryMaxElapsedTimeExceeded"
             /\ invocations' = invocations]_vars
  /\ [][(pc = "awaitGiveUp" /\ pc' # pc) => (pc' = "rejected" /\ outcome' = failErr)]_vars

C6_Witness ==
  /\ pc = "rejected" /\ cfg.maxElapsedTime = 0 /\ invocations = 0
  /\ outcome.name = "RetryMaxElapsedTimeExceeded"

\* C7: with maxElapsedTime = B the operation is never invoked at a moment when B or
\* more milliseconds have elapsed, also not after waiting for a limiter permit.
C7_NeverInvokedOverBudget ==
  [][invocations' > invocations
       => ~(cfg.maxElapsedTime # Undef /\ now' - startTime' >= cfg.maxElapsedTime)]_vars

\* C8: once runDelayWithOverride has returned false the operation is not invoked
\* again; on the result path the call resolves with the pending result, on the
\* failure path it fails, and then rejects, with the pending operation error.
C8_DelayRefusedFinalizes ==
  /\ [](delayFalse
          => /\ path = "result"
                 => (pc = "resolved" /\ outcome = cur /\ cur.kind = "result"
                       /\ cur.inv = invocations)
             /\ path = "error"
                 => (/\ pc \in {"awaitGiveUp", "rejected"}
                     /\ failErr = cur /\ cur.kind = "error" /\ cur.message = "fail"
                     /\ cur.inv = invocations
                     /\ pc = "rejected" => outcome = cur)
             /\ path \in {"result", "error"})
  /\ [][(delayFalse \/ delayFalse') => invocations' = invocations]_vars

C8_Witness ==
  delayFalse /\ path = "error" /\ pc = "rejected" /\ outcome = cur /\ cur.inv > 0

C8_WitnessResult ==
  delayFalse /\ path = "result" /\ pc = "resolved" /\ outcome = cur

\* C9 as stated: whenever an attempt starts with the external signal already
\* aborted, the operation is not invoked and the call fails with 'Operation aborted'.
C9_AsStated ==
  [][(pc = "loop" /\ cfg.hasSignal /\ extAborted /\ pc' # pc)
       => /\ invocations' = invocations
          /\ pc' = "awaitGiveUp"
          /\ failErr'.message = "Operation aborted"]_vars

\* C9: whenever an attempt starts with the external signal already aborted, the
\* operation is not invoked in it and the call fails: with the budget error if the
\* budget check (made first) finds the budget used up, else with the configuration
\* error if a timeout is configured and AbortSignal.timeout is unsupported, else
\* with 'Operation aborted'; a signal aborted before the first attempt means zero
\* invocations and no resolution.
C9_AbortedAtAttemptStart ==
  /\ [][(pc = "loop" /\ cfg.hasSignal /\ extAborted /\ pc' # pc)
          => /\ invocations' = invocations
             /\ pc' = "awaitGiveUp"
             /\ failErr' = (IF OverBudget THEN BudgetError
                            ELSE IF cfg.timeout # Undef /\ ~cfg.timeoutSupported
                              THEN ConfigError
                            ELSE AbortError)]_vars
  /\ (extAborted => [](invocations = 0 /\ pc \in {"loop", "awaitGiveUp", "rejected"}))

C9_Witness ==
  /\ pc = "rejected" /\ outcome = AbortError /\ extAborted
  /\ invocations = 0 /\ seen = {}

C9_WitnessLater ==
  /\ pc = "rejected" /\ outcome = AbortError /\ extAborted
  /\ invocations > 0 /\ seen \cap {"abortIn", "abortPre"} = {}

C11_NoInvocationAfterAbort ==
  [][extAborted => invocations' = invocations]_vars

\* C12: when the per-attempt timeout fires during an invocation in flight, the
\* external signal has not fired and retries remain, the call is not finalized by
\* that: it does not go to fail().
C12_TimeoutEndsOnlyTheAttempt ==
  [][(/\ pc = "inflight" /\ timeoutAt = now /\ ~combinedAborted /\ combinedAborted'
      /\ ~extAborted' /\ RetriesLeft(attempts, cfg.retries))
       => pc' # "awaitGiveUp"]_vars

\* C13: a failure inside onRetry or onGiveUp never changes the outcome: a rejected
\* call rejects with the error handed to fail() (an operation error or one of the
\* engine's own errors), never with what a callback threw.
C13_CallbackFailuresDiscarded ==
  pc = "rejected" => (outcome = failErr /\ outcome # CallbackError)

\* C14: when the call ends through fail() (retries exhausted, retryIf refusing,
\* budget exceeded, delay refused, cancellation), onGiveUp has been called exactly
\* once, with the error the call rejects with and the number of invocations made,
\* and the rejection is delivered only after onGiveUp has settled; onGiveUp is not
\* called while the call is running and never when it resolves.
C14_GiveUpOnceBeforeRejection ==
  /\ []((pc \in {"awaitGiveUp", "rejected"} /\ ~onRetryThrew)
          => /\ Len(giveUpLog) = 1
             /\ giveUpLog[1] = << failErr, invocations >>
             /\ pc = "rejected" => outcome = giveUpLog[1][1])
  /\ []((pc \notin {"awaitGiveUp", "rejected"} \/ onRetryThrew) => giveUpLog = << >>)
  /\ [][(pc # "rejected" /\ pc' = "rejected" /\ ~onRetryThrew')
          => (pc = "awaitGiveUp" /\ giveUpLog' = giveUpLog /\ Len(giveUpLog) = 1)]_vars

C14_Witness ==
  /\ pc = "rejected" /\ Len(giveUpLog) = 1 /\ refusedAt = 0 /\ ~delayFalse
  /\ outcome.message = "fail" /\ invocations = cfg.retries + 1 /\ cfg.retries > 0
  /\ giveUpLog[1][2] = cfg.retries + 1

C14_WitnessBudget ==
  pc = "rejected" /\ giveUpLog = << << BudgetError, 0 >> >>

\* C15: in every reachable state of a RateLimiter used by any number of callers,
\* tokens <= tokensPerInterval.
C15_TokensNeverAboveCapacity ==
  tokens <= Opts.tokensPerInterval

C15_Witness ==
  /\ calls > 1 /\ lastCall.idleFor >= Opts.interval
  /\ lastCall.before > 0 /\ lastCall.avail = Opts.tokensPerInterval

\* C16 as stated: an acquire() called after the limiter was unused for k * interval
\* milliseconds (k >= 1) finds, after its refill, min(C, C * k) = C tokens.
C16_AsStated ==
  (calls > 0 /\ lastCall.idleFor >= Opts.interval)
  => lastCall.avail = Opts.tokensPerInterval

\* C16: an acquire() called after the limiter was unused for k * interval
\* milliseconds (k >= 1) finds, after its refill, at least min(C, t + C * k) and at
\* most C tokens, t being the balance before; that is C whenever t >= 0, and less
\* than C only when the balance was negative.
C16_IdleRefill ==
  (calls > 0 /\ lastCall.idleFor >= Opts.interval)
  => LET C == Opts.tokensPerInterval
         k == lastCall.idleFor \div Opts.interval
     IN /\ lastCall.avail <= C
        /\ lastCall.avail >= Min(C, lastCall.before + C * k)
        /\ lastCall.before >= 0 => lastCall.avail = C

C16_Witness ==
  /\ calls > 0 /\ lastCall.idleFor >= Opts.interval
  /\ lastCall.before < 0 /\ lastCall.avail < Opts.tokensPerInterval

C16_WitnessFull ==
  /\ calls > 0 /\ lastCall.idleFor >= 2 * Opts.interval
  /\ lastCall.before = 0 /\ lastCall.avail = Opts.tokensPerInterval

\* C17: on a fresh RateLimiter with jitter 'none' the first C acquire() calls
\* return without waiting (in any jitter mode), the (C+1)-th call, if issued
\* within the first interval, waits on a timer set to the moment interval
\* milliseconds after the last refill, and a waiting call returns exactly when
\* its timer is due.
C17_FirstPermitsThenExactWait ==
  /\ [][(calls' = calls + 1 /\ calls < Opts.tokensPerInterval)
          => (~lastCall'.waited /\ \A c \in Callers : acq'[c].st # "waiting")]_vars
  /\ [][(/\ calls' = calls + 1 /\ calls = Opts.tokensPerInterval
         /\ now < Opts.interval /\ Opts.jitterMode = "none")
          => \E c \in Callers :
               /\ acq[c].st # "waiting" /\ acq'[c].st = "waiting"
               /\ acq'[c].wake = lastRefill' + Opts.interval
               /\ acq'[c].wake > now]_vars
  /\ [][\A c \in Callers :
          (acq[c].st = "waiting" /\ acq'[c].st = "done") => now' = acq[c].wake]_vars

C17_Witness ==
  /\ Opts.jitterMode = "none" /\ calls = Opts.tokensPerInterval + 1
  /\ lastCall.waited /\ lastCall.base < Opts.interval
  /\ now = Opts.interval /\ lastUse = now
  /\ \A c \in Callers : acq[c].st = "done"

\* C18: when acquire() has to wait, baseDelay = interval - (now - lastRefill) is
\* positive and the timer duration (whole milliseconds) is baseDelay under 'none'
\* and under an omitted jitterMode, lies in [0, baseDelay) under 'full', and in
\* [baseDelay / 2, baseDelay), rounded down, under 'equal'.
C18_JitterBounds ==
  lastCall.waited
  => LET b == lastCall.base
         d == lastCall.delay
         m == cfg.limiter.jitterMode
     IN /\ b > 0 /\ b <= cfg.limiter.interval
        /\ m \in {"none", "undefined"} => d = b
        /\ m = "full" => (0 <= d /\ d < b)
        /\ m = "equal" => (b \div 2 <= d /\ d < b)

C18_Witness ==
  /\ lastCall.waited /\ cfg.limiter.jitterMode = "equal"
  /\ lastCall.base = 3 /\ lastCall.delay = 2

C18_WitnessOmitted ==
  /\ lastCall.waited /\ cfg.limiter.jitterMode = "undefined"
  /\ lastCall.base = 1 /\ lastCall.delay = 1

\* C19: given that due timers fire and time advances, every acquire() call that
\* had to wait eventually returns, for any number of callers and any jitter mode
\* (acquire() has no way to reject).
C19_AcquireEventuallyResolves ==
  \A c \in Callers : (acq[c].st = "waiting") ~> (acq[c].st = "done")

C19_Witness ==
  /\ lastCall.waited /\ calls = MaxCalls
  /\ \A c \in Callers : acq[c].st = "done"
  /\ tokens < 0

\* C20: when a limiter is configured, the operation is invoked only by the step
\* that completes an acquire() of this call: the completed acquire() calls and the
\* invocations are equal in number at all times, on the first attempt and on
\* every retry.
C20_EveryInvocationHasItsPermit ==
  /\ [](cfg.limiter.kind # "none" => permits = invocations)
  /\ [][(cfg.limiter.kind # "none" /\ invocations' # invocations)
          => (/\ pc = "acquiring" /\ now = wakeAt
              /\ permits' = permits + 1 /\ invocations' = invocations + 1)]_vars

C20_Witness ==
  /\ cfg.limiter.kind # "none" /\ invocations = MaxRetries + 1
  /\ permits = MaxRetries + 1

\* C21: mergeAbortSignals ignores undefined entries: the composite it returns is
\* aborted at return exactly when some entry of the array was an aborted signal,
\* and undefined entries get no listener.
C21_MergeAtReturn ==
  snapshot.called
  => /\ snapshot.aborted = (\E i \in DOMAIN snapshot.inputs : snapshot.inputs[i] = "aborted")
     /\ \A i \in listeners : snapshot.inputs[i] = "live"

C21_Witness ==
  /\ snapshot.called /\ snapshot.aborted /\ Len(snapshot.inputs) = 2
  /\ snapshot.inputs[1] = "undefined" /\ snapshot.inputs[2] = "aborted"

C21_WitnessLive ==
  /\ snapshot.called /\ ~snapshot.aborted /\ Len(snapshot.inputs) = 2
  /\ snapshot.inputs[1] = "live" /\ snapshot.inputs[2] = "undefined"

\* C22: a composite returned by mergeAbortSignals is aborted exactly when one of
\* its sources is (was at the call, or has fired since); once aborted it stays
\* aborted, and a firing of a further source changes nothing about it.
C22_CompositeLatches ==
  /\ [](composite # "none"
          => (composite = "aborted") = (\E i \in DOMAIN srcs : srcs[i] = "aborted"))
  /\ [][composite = "aborted" => composite' = "aborted"]_vars
  /\ [][composite = "live" => composite' \in {"live", "aborted"}]_vars

C22_Witness ==
  /\ snapshot.called /\ ~snapshot.aborted /\ composite = "aborted"
  /\ Cardinality({ i \in DOMAIN srcs : srcs[i] = "aborted" }) >= 2

\* C23: on the failure path a hint extracted from the error is a floor on the
\* wait: whenever the delay step lets the loop go on (at once, or after the extra
\* sleep it starts), the time waited since the failure is at least the hint.
C23_HintIsFloor ==
  [][(/\ pc = "awaitOverride" /\ path = "error"
      /\ extractRetryAfterMs(ErrorObject(cur), now) # Undef
      /\ pc' \in {"loop", "extraDelay"})
     => IF pc' = "loop"
          THEN waited >= extractRetryAfterMs(ErrorObject(cur), now)
          ELSE waited + (wakeAt' - now) >= extractRetryAfterMs(ErrorObject(cur), now)]_vars

\* C24: extractRetryAfterMs returns the first match of, in this order: a finite
\* retryAfterMs; the Retry-After header as seconds (a blank value reads as 0
\* seconds), else as a date still ahead; a reset header denoting an instant still
\* ahead; 1000 for status 429 or 503; and undefined when none matches.  A date or
\* reset not ahead, a value that parses as neither, and an accessor that throws
\* give no hint and leave the later steps to decide.
C24_Readable == hintErr.headers.present /\ ~hintErr.headers.throws
C24_Seconds == C24_Readable /\ hintErr.headers.retryAfter.k \in {"number", "blank"}
C24_Date ==
  /\ C24_Readable /\ hintErr.headers.retryAfter.k = "date"
  /\ hintErr.headers.retryAfter.v > now
C24_ResetAt ==
  CASE hintErr.headers.reset.k = "big" -> hintErr.headers.reset.v
    [] hintErr.headers.reset.k = "number" -> hintErr.headers.reset.v * 1000
    [] OTHER -> 0
C24_Reset ==
  /\ C24_Readable /\ hintErr.headers.reset.k \in {"number", "big", "blank"}
  /\ C24_ResetAt > now
C24_FirstMatchWins ==
  hint.called
  => hint.ms =
       (IF ~hintErr.isObject THEN Undef
        ELSE IF hintErr.retryAfterMs \notin {Undef, NaN} THEN hintErr.retryAfterMs
        ELSE IF C24_Seconds
          THEN (IF hintErr.headers.retryAfter.k = "blank"
                       \/ hintErr.headers.retryAfter.v < 0
                  THEN 0 ELSE hintErr.headers.retryAfter.v * 1000)
        ELSE IF C24_Date THEN hintErr.headers.retryAfter.v - now
        ELSE IF C24_Reset THEN C24_ResetAt - now
        ELSE IF hintErr.status \in {429, 503} THEN 1000
        ELSE Undef)

\* a stale Retry-After date falls through to a reset still ahead, before the status
C24_Witness ==
  /\ hint.called /\ hintErr.isObject /\ hintErr.retryAfterMs = Undef
  /\ C24_Readable /\ hintErr.headers.retryAfter = HeaderValue("date", 1) /\ now = 2
  /\ hintErr.headers.reset = HeaderValue("big", 3)
  /\ hintErr.status = TooManyRequests
  /\ hint.ms = 1

\* an accessor that throws leaves the status to decide
C24_WitnessThrows ==
  /\ hint.called /\ hintErr.isObject /\ hintErr.retryAfterMs = NaN
  /\ hintErr.headers.present /\ hintErr.headers.throws
  /\ hintErr.headers.retryAfter = HeaderValue("number", 5)
  /\ hintErr.status = ServiceUnavailable
  /\ hint.ms = 1000

C25_WitnessResult ==
  /\ pc = "inflight" /\ invocations = 2 /\ attempts = 1
  /\ path = "result" /\ onRetryLog = << >>

\* a step of acquire() whose refill credits at least one whole interval
C26_RefillCredits ==
  /\ calls' # calls \/ acq' # acq
  /\ (now - lastRefill) \div Opts.interval >= 1

\* C26 as stated: a refill that credits m >= 1 whole intervals advances the
\* refill timestamp by exactly m * interval, keeping the remainder.
C26_AsStated ==
  [][C26_RefillCredits
       => lastRefill' = lastRefill
                          + ((now - lastRefill) \div Opts.interval) * Opts.interval]_vars

\* C26, amended: a refill that credits m >= 1 whole intervals sets the refill
\* timestamp to the current time, whatever the remainder; a refill that credits
\* none leaves the timestamp alone.
C26_RefillResetsTimestamp ==
  /\ [][C26_RefillCredits => lastRefill' = now]_vars
  /\ [][lastRefill' # lastRefill => C26_RefillCredits]_vars

\* the first refill came more than one and less than two intervals after the
\* construction: the timestamp is the time of the refill, not a multiple of the
\* interval
C26_Witness ==
  /\ lastRefill = now
  /\ lastRefill > Opts.interval /\ lastRefill < 2 * Opts.interval

\* C27: an acquire() that waited decrements tokens after its second refill
\* whatever that refill left, so tokens can fall below zero; every acquire()
\* takes exactly one token: at once when the first refill leaves one, and
\* otherwise none at the call and one at the wake-up.
C27_DecrementUnconditional ==
  /\ [][\A c \in Callers :
          (acq[c].st = "waiting" /\ acq'[c].st = "done")
            => tokens' = refill(tokens, lastRefill, now, Opts).tokens - 1]_vars
  /\ [][calls' # calls
          => tokens' = refill(tokens, lastRefill, now, Opts).tokens
                         - (IF refill(tokens, lastRefill, now, Opts).tokens > 0
                              THEN 1 ELSE 0)]_vars
  /\ [][tokens' < tokens => tokens' = tokens - 1]_vars

\* two callers waited on the empty bucket of capacity 1 and both went on
C27_Witness ==
  /\ tokens < 0
  /\ Opts.tokensPerInterval = 1 /\ Opts.jitterMode = "none"
  /\ \A c \in Callers : acq[c].st = "done"

\* one caller, 'full' jitter: the wait ended before the interval did
C27_WitnessJitter ==
  /\ tokens < 0
  /\ Opts.jitterMode = "full" /\ calls = 2
  /\ \E c \in Callers : acq[c].st = "done" /\ \A d \in Callers \ {c} : acq[d].st = "idle"

\* C28: callers of one RateLimiter are not queued: the timer of a caller that has
\* to wait is set from the refill timestamp and the clock it reads at its call,
\* to at most one interval after that timestamp, however many callers are waiting
\* already.
C28_NotQueued ==
  /\ [](\A c \in Callers :
          acq[c].st = "waiting" => acq[c].wake <= lastRefill + Opts.interval)
  /\ [][\A c \in Callers :
          (calls' # calls /\ acq'[c] # acq[c] /\ acq'[c].st = "waiting")
            => /\ acq'[c].wake >= now
               /\ acq'[c].wake <= now + (Opts.interval - (now - lastRefill'))]_vars

\* capacity 1, no jitter: three acquire() calls have completed when the first
\* interval ends, two of them at that very millisecond
C28_Witness ==
  /\ Opts.tokensPerInterval = 1 /\ Opts.jitterMode = "none"
  /\ now = Opts.interval /\ calls = 3 /\ tokens = 0 - 1
  /\ \A c \in Callers : acq[c].st = "done"

\* the caller that called last has completed while an earlier caller still waits
C28_WitnessOrder ==
  \E c, d \in Callers :
    /\ c # d
    /\ acq[c].st = "waiting" /\ acq[d].st = "done"
    /\ lastCall.by = d /\ lastCall.waited

\* C29: the wait for a permit does not listen to the composed signal: a call
\* that is waiting in acquire() leaves that wait only when acquire() completes
\* (its timer is due and the permit is taken), also after the signal has fired,
\* and it has not settled before.
C29_PermitWaitNotAbortAware ==
  /\ [](pc = "acquiring" => outcome = NoVal)
  /\ [][(pc = "acquiring" /\ pc' # "acquiring")
          => /\ now = wakeAt
             /\ permits' = permits + 1
             /\ pc' = (IF combinedAborted THEN "raceLost" ELSE "inflight")]_vars

\* the signal has fired, the timer of acquire() is still running, nothing settled
C29_Witness ==
  /\ pc = "acquiring" /\ acqWaited /\ now < wakeAt
  /\ extAborted /\ combinedAborted
  /\ outcome = NoVal

\* the same call once acquire() has completed: fn is invoked after the abort
C29_WitnessAfter ==
  /\ pc = "raceLost" /\ extAborted /\ permits = invocations /\ invocations >= 1
  /\ outcome = NoVal

\* C30: in runDelayWithOverride the override is called with the current attempt
\* number and suggestedDelayMs = waited, and its answer can only lengthen the
\* wait: the target is the answer floored at 0 (waited for an answer that is no
\* finite number), the extra sleep is target - waited when that is positive and
\* none otherwise, so that the whole wait is max(waited, target).
C30_OverrideOnlyLengthens ==
  /\ [](pc = "awaitOverride"
          => ovrCtx = [attempt |-> attempts, suggestedDelayMs |-> waited])
  /\ [][(pc = "awaitOverride" /\ pc' # pc)
          => \E v \in (IF cfg.hasOverride THEN OverrideChoices ELSE {waited}) :
               LET s == Suggested(v)
                   target == IF s = NaN THEN waited ELSE IF s < 0 THEN 0 ELSE s
                   total == IF target > waited THEN target ELSE waited
               IN IF total = waited
                    THEN pc' # "extraDelay" /\ wakeAt' = wakeAt
                    ELSE \/ pc' = "extraDelay" /\ wakeAt' = now + (total - waited)
                         \/ pc' # "extraDelay" /\ delayFalse' /\ wakeAt' = wakeAt]_vars

\* delayFn took a millisecond and the caller's override asked for more: the
\* extra sleep is under way
C30_Witness ==
  /\ pc = "extraDelay" /\ path = "result" /\ cfg.hasOverride
  /\ waited = 1 /\ wakeAt = now + 1

\* delayFn took two milliseconds: whatever the override answers, no sleep follows
C30_WitnessSmaller ==
  /\ pc = "awaitOverride" /\ path = "result" /\ cfg.hasOverride
  /\ waited = 2 /\ ovrCtx.suggestedDelayMs = 2 /\ ovrCtx.attempt = 1

\* C31: with a budget, runDelayWithOverride starts the extra sleep only when
\* elapsed + extra < maxElapsedTime, so the sleep is due before the deadline; when
\* the override asks for a positive extra with elapsed + extra >= maxElapsedTime
\* it returns false at once, without a sleep.
C31_ExtraWaitWithinBudget ==
  /\ []((pc = "extraDelay" /\ cfg.maxElapsedTime # Undef)
          => wakeAt - startTime < cfg.maxElapsedTime)
  /\ [][(pc = "awaitOverride" /\ pc' = "extraDelay" /\ cfg.maxElapsedTime # Undef)
          => /\ wakeAt' > now
             /\ elapsed + (wakeAt' - now) < cfg.maxElapsedTime]_vars
  /\ [][(/\ pc = "awaitOverride" /\ pc' # pc /\ cfg.maxElapsedTime # Undef
         /\ elapsed < cfg.maxElapsedTime /\ pc' # "extraDelay" /\ pc' # "loop")
          => /\ delayFalse' /\ wakeAt' = wakeAt /\ now' = now
             /\ \E v \in (IF cfg.hasOverride THEN OverrideChoices ELSE {waited}) :
                  /\ Suggested(v) # NaN /\ Suggested(v) > waited
                  /\ elapsed + (Suggested(v) - waited) >= cfg.maxElapsedTime]_vars

\* an extra sleep that fits the budget is under way
C31_Witness ==
  /\ pc = "extraDelay" /\ cfg.maxElapsedTime # Undef
  /\ wakeAt > now /\ wakeAt - startTime < cfg.maxElapsedTime

\* the delay step returned false with budget left: the extra sleep did not fit
C31_WitnessRefused ==
  /\ delayFalse /\ cfg.maxElapsedTime # Undef /\ elapsed < cfg.maxElapsedTime
  /\ cfg.hasOverride

\* C32 as stated: when the delay step finds the budget insufficient after a failed
\* attempt, the call rejects with the error named RetryMaxElapsedTimeExceeded.
C32_AsStated ==
  (delayFalse /\ path = "error" /\ pc = "rejected")
    => outcome.name = "RetryMaxElapsedTimeExceeded"

\* C32, amended: when the delay step finds the budget insufficient after a failed
\* attempt, the call rejects with the error of that attempt, which is also what
\* onGiveUp is given; the error named RetryMaxElapsedTimeExceeded comes from the
\* budget check at the head of the loop and from nowhere else.
C32_RefusedDelayKeepsOperationError ==
  /\ []((delayFalse /\ path = "error")
          => /\ failErr.name = "Error" /\ failErr.message = "fail"
             /\ failErr.inv = invocations
             /\ giveUpLog # << >>
             /\ pc = "rejected" => outcome = failErr)
  /\ [][(failErr'.name = "RetryMaxElapsedTimeExceeded" /\ failErr' # failErr)
          => (pc = "loop" /\ OverBudget /\ ~delayFalse')]_vars

C32_Witness ==
  /\ delayFalse /\ path = "error" /\ pc = "rejected"
  /\ cfg.maxElapsedTime = 2 /\ elapsed = 2
  /\ outcome.name = "Error" /\ outcome.message = "fail"

\* C33: one retry() call awaits at most one invocation of the operation at a
\* time: an invocation starts only from the loop head or from the end of the
\* permit wait, one at a time, and never while an earlier invocation of the call,
\* one that lost the race to cancellation included, is still unsettled; such a
\* leftover invocation exists only in a call that is on its way to rejecting.
C33_OneInvocationAtATime ==
  /\ [][invocations' # invocations
          => /\ invocations' = invocations + 1
             /\ pc \in {"loop", "acquiring"}
             /\ pc' \in {"inflight", "raceLost"}
             /\ ~opPending /\ ~opPending']_vars
  /\ [](opPending => pc \in {"awaitGiveUp", "rejected"})
  /\ [](pc \in {"inflight", "raceLost"} => ~opPending)

\* a second invocation is in flight, the first having settled with a rejection
C33_Witness ==
  /\ pc = "inflight" /\ invocations = 2 /\ ~opPending
  /\ seen \cap {"rejE", "rejN"} # {}

\* an invocation that lost the race is still running while the call rejects
C33_WitnessLeftover ==
  /\ opPending /\ pc = "rejected" /\ invocations = 1
  /\ outcome.message = "Operation aborted"

C34_WitnessAccepted ==
  /\ pc = "resolved" /\ "accepted" \in seen /\ invocations = 2 /\ attempts = 1

\* C35: a call that has settled stays settled with the same outcome, and from
\* then on the operation is not invoked and neither onRetry nor onGiveUp is
\* called, whatever completes afterwards (a late-settling invocation included).
C35_SettledIsFinal ==
  /\ [][(pc \in {"resolved", "rejected"})
          => (/\ pc' = pc
              /\ outcome' = outcome
              /\ invocations' = invocations
              /\ attempts' = attempts
              /\ onRetryLog' = onRetryLog
              /\ giveUpLog' = giveUpLog)]_vars
  /\ [](pc \in {"resolved", "rejected"} <=> outcome # NoVal)
  /\ [](pc = "resolved" => outcome.kind = "result")
  /\ [](pc = "rejected" => outcome.kind = "error")

\* the per-attempt timeout ended the call, and the abandoned invocation has
\* settled since
C35_Witness ==
  /\ pc = "rejected" /\ "abortIn" \in seen /\ ~extAborted /\ cfg.timeout # Undef
  /\ ~opPending /\ Len(giveUpLog) = 1 /\ invocations = 1

\* C36: retries on errors and retries on rejected results use up the same
\* counter: whatever the invocations of a call with retries = n end in, and in
\* whatever order, the operation is invoked at most n + 1 times, and a further
\* invocation starts only while the counter is at most n.
C36_SharedCounterBoundsInvocations ==
  /\ [](invocations <= cfg.retries + 1)
  /\ [][invocations' > invocations => attempts <= cfg.retries]_vars

\* n + 1 invocations, some of which failed and some of which had their result
\* rejected
C36_Witness ==
  /\ cfg.retries = MaxRetries /\ invocations = MaxRetries + 1
  /\ "res" \in seen /\ "rejE" \in seen /\ "accepted" \notin seen
  /\ pc = "resolved"

C37_WitnessZero ==
  /\ pc = "rejected" /\ giveUpLog = << << AbortError, 0 >> >> /\ invocations = 0

\* C38: onGiveUp has been called exactly once whenever the call has rejected,
\* whatever made it reject.
C38_GiveUpOnEveryRejection ==
  pc = "rejected" => Len(giveUpLog) = 1

\* C39: when callbacks return, timers fire and every invocation settles, or a
\* per-attempt timeout is configured for an invocation that never does, every
\* retry() call eventually resolves or rejects
C39_CallEventuallySettles == <>(pc \in {"resolved", "rejected"})

\* a call whose only invocation never settled was ended by its per-attempt timeout
C39_Witness ==
  /\ pc = "rejected" /\ opPending /\ cfg.timeout # Undef /\ ~extAborted
  /\ "abortIn" \in seen /\ now >= cfg.timeout
  /\ outcome.message = "Operation aborted"

\* a call without a timeout settled after every one of its invocations did
C39_WitnessAllSettled ==
  /\ pc = "rejected" /\ ~opPending /\ cfg.timeout = Undef
  /\ cfg.retries = MaxRetries /\ invocations = MaxRetries + 1

\* C40: with a per-attempt timeout t, every invocation of the operation starts
\* with the whole window ahead of it: the timeout signal has not fired and is due
\* t milliseconds after the invocation, so an invocation that settles sooner is
\* not cancelled by it, however long the attempt waited for its permit
C40_TimeoutWindowStartsAtInvocation ==
  [][(invocations' = invocations + 1 /\ cfg.timeout # Undef)
       => timeoutAt' = now' + cfg.timeout]_vars

====
